---- MODULE Spec2Model ----
(***************************************************************************)
(* Model of the vaux MQTT client session engine                            *)
(* (vaux-client/src/client.rs): MqttClient::new, MqttClient::start with    *)
(* the CONNECT/CONNACK handshake (send_connect, handle_connack) and the    *)
(* steady-state loop (inbound dispatch, outbound dequeue, drain of         *)
(* pending_publish).                                                       *)
(*                                                                         *)
(* The session thread is one process whose position is pc:                 *)
(*   "idle"        constructed, start not called yet                       *)
(*   "connect"     thread spawned, before send_connect                     *)
(*   "read"        top of the loop, about to call read_next   (line 414)   *)
(*   "send"        about to call packet_send.recv_timeout     (line 488)   *)
(*   "drain"       at the condition of the drain loop         (line 525)   *)
(*   "drain_send"  in the drain loop, sending a packet        (line 527)   *)
(*   "terminated"  the thread has returned or panicked                     *)
(*   "blocked"     the thread waits for a mutex it holds itself (line 672) *)
(*   "lock_wait"   the thread waits for last_error, held by try_start      *)
(*                 (line 399)                                              *)
(* The application (producer side) and the broker (frames arriving on the  *)
(* stream, outcome of each write) are the environment.  A caller of        *)
(* try_start is a second process whose position is try_pc ("none", "poll", *)
(* "sleep", "join", "returned").                                           *)
(*                                                                         *)
(* Stream model: write_all succeeds until the connection breaks, which     *)
(* the environment decides at any write; on a broken connection every      *)
(* later write fails too (write_failed).  shutdown() is taken to return Ok *)
(* (the code unwraps its result).                                          *)
(***************************************************************************)
EXTENDS Integers, Sequences, FiniteSets, TLC

\* ------------------------------------------------------------------ bounds
\* packets the application enqueues on the producer channel, in total
MaxSends == 4
\* frames the broker delivers to the steady-state loop, in total
MaxInbound == 2
\* calls of start on the same client (RestartSpec)
MaxStarts == 2
\* largest receive_max a client is constructed with
MaxReceiveMax == 1
\* largest packet ID used by the caller and by the broker in a PubAck
MaxPid == 1
\* how far below u16::MAX last_packet_id is in a long-running session
\* (LongSessionSpec)
MaxIdGap == 2
\* capacity of pending_publish; the source value is 100 (client.rs:23),
\* scaled down so that a full queue is reachable
MAX_QUEUE_LEN == 2

\* default of max_packet_size and read limit of the handshake; the source
\* value is 64 * 1024 (client.rs:22), scaled down to a few bytes
DEFAULT_MAX_PACKET_SIZE == 4
\* how far below and above the default set_max_packet_size goes
SizeSpread == 2
\* longest body of a frame the peer sends to a reading session (ReadSpec)
MaxReadBody == 3
\* frames the peer sends after the CONNACK (ReadSpec)
MaxReadFrames == 2

\* ---------------------------------------------------------------- packets
\* Option<u16>::None for a packet ID
NoId == 0 - 1

\* one record shape for every packet; tag identifies an application message
\* (its payload) by the order in which it was enqueued
Pkt(kind, qos, pid, reason, tag) ==
    [kind |-> kind, qos |-> qos, packet_id |-> pid, reason |-> reason, tag |-> tag]

NoFrame == Pkt("None", 0, NoId, "Success", 0)

\* reason codes a broker puts in a CONNACK
BrokerReasons == {"Success", "Unauthorized", "ServerShutdown"}
\* reason codes a peer puts in a DISCONNECT ("Success" is NormalDisconnect)
DisconnectReasons == {"Success", "ServerShutdown"}

\* frames read_next can decode in steady state
InboundFrames ==
    {Pkt("Disconnect", 0, NoId, r, 0) : r \in DisconnectReasons}
    \cup {Pkt("Publish", 0, NoId, "Success", 0)}
    \cup {Pkt("Publish", 1, i, "Success", 0) : i \in {NoId, 1}}
    \cup {Pkt("Publish", 2, 1, "Success", 0)}
    \cup {Pkt("PubAck", 0, i, "Success", 0) : i \in 1..MaxPid}
    \cup {Pkt("PingResponse", 0, NoId, "Success", 0)}

\* outcomes of read_next that carry no packet
EmptyReads == {"None", "Timeout", "DecodeErr", "IOErr"}

\* packets the application can enqueue; in auto packet-ID mode the caller
\* leaves the ID unset, otherwise it may supply one or forget it
OutboundPackets(auto, tag) ==
    {Pkt("Publish", 0, NoId, "Success", tag)}
    \cup {Pkt("Publish", 1, i, "Success", tag) :
             i \in IF auto THEN {NoId} ELSE {NoId} \cup 1..MaxPid}
    \cup {Pkt("Disconnect", 0, NoId, "Success", tag)}

\* ----------------------------------------------------------------- errors
\* reason is "NA" for the kinds that carry no reason code
NoError == [kind |-> "None", reason |-> "NA"]
MqttError(kind, reason) == [kind |-> kind, reason |-> reason]

Running == [status |-> "running", error |-> NoError, site |-> "none"]
ThreadErr(e, site) == [status |-> "err", error |-> e, site |-> site]
ThreadOk(site) == [status |-> "ok", error |-> NoError, site |-> site]
ThreadPanic(site) == [status |-> "panic", error |-> NoError, site |-> site]

\* ------------------------------------------------------------- HashMap ops
EmptyMap == [k \in {} |-> NoFrame]
MapInsert(m, k, v) == [x \in (DOMAIN m) \cup {k} |-> IF x = k THEN v ELSE m[x]]
MapRemove(m, k) == [x \in (DOMAIN m) \ {k} |-> m[x]]

Range(s) == {s[i] : i \in DOMAIN s}

VARIABLES
    auto_ack, auto_packet_id, receive_max,   \* MqttClient configuration
    client_id_set,                           \* client_id is Some
    connected, last_error, pending_qos1,     \* shared cells of MqttClient
    packet_send, packet_recv,                \* producer and consumer channels
    consumer_alive,                          \* some Receiver of packet_recv exists
    pc, result, starts,                      \* session thread
    last_packet_id, pending_recv_ack,        \* locals of the session thread
    pending_publish, qos_1_remaining,
    stream_shut, wire, write_failed,         \* the stream of this connection
    connack, last_frame, frames_in,          \* last packet read_next returned
    sent_log, matched_acks,                  \* history
    try_pc, try_result,                      \* the caller of try_start
    codec_op, codec_pc, val, data, dest,     \* a call into vaux-mqtt's codec
    fed, ret,
    max_packet_size, buffer, eof,            \* a session thread's reads
    returned, rn_pc, phase

cfg == <<auto_ack, auto_packet_id, receive_max, client_id_set>>
shared == <<connected, last_error, pending_qos1>>
locals == <<last_packet_id, pending_recv_ack, pending_publish, qos_1_remaining>>
stream == <<stream_shut, wire, write_failed>>
caller == <<try_pc, try_result>>
reader == <<max_packet_size, buffer, eof, returned, rn_pc, phase>>
codec == <<codec_op, codec_pc, val, data, dest, fed, ret, reader>>
vars == <<auto_ack, auto_packet_id, receive_max, client_id_set, connected, last_error,
          pending_qos1, packet_send, packet_recv, consumer_alive, pc, result,
          starts, last_packet_id, pending_recv_ack, pending_publish,
          qos_1_remaining, stream_shut, wire, write_failed, connack,
          last_frame, frames_in, sent_log, matched_acks, try_pc, try_result,
          codec_op, codec_pc, val, data, dest, fed, ret,
          max_packet_size, buffer, eof, returned, rn_pc, phase>>

\* ------------------------------------------------------- codec results
\* what a codec function hands back: kind is "Ok", "Err", "None" (Ok(None)),
\* "Some" or "panic"; the fields a kind does not use keep their zero
NoOut ==
    [kind |-> "none", value |-> 0, bytes |-> <<>>, rest |-> <<>>,
     packet_type |-> "NA", flags |-> 0]
\* the buffer of the session thread is not looked at; max_packet_size is
\* the value MqttClient::new sets
ReaderOff ==
    /\ max_packet_size = DEFAULT_MAX_PACKET_SIZE
    /\ buffer = <<>>
    /\ eof = FALSE
    /\ returned = <<>>
    /\ rn_pc = "off"
    /\ phase = "off"

\* no codec call is under way
CodecOff ==
    /\ codec_op = "off"
    /\ codec_pc = "off"
    /\ val = 0
    /\ data = <<>>
    /\ dest = <<>>
    /\ fed = 0
    /\ ret = NoOut
    /\ ReaderOff

\* MqttClient::new
Init ==
    /\ auto_ack \in BOOLEAN
    /\ auto_packet_id \in BOOLEAN
    /\ receive_max \in 0..MaxReceiveMax
    /\ client_id_set = TRUE
    /\ connected = FALSE
    /\ last_error = NoError
    /\ pending_qos1 = <<>>
    /\ packet_send = <<>>
    /\ packet_recv = <<>>
    /\ consumer_alive = TRUE
    /\ pc = "idle"
    /\ result = Running
    /\ starts = 0
    /\ last_packet_id = 0
    /\ pending_recv_ack = EmptyMap
    /\ pending_publish = <<>>
    /\ qos_1_remaining = 0
    /\ stream_shut = FALSE
    /\ wire = <<>>
    /\ write_failed = FALSE
    /\ connack = NoFrame
    /\ last_frame = NoFrame
    /\ frames_in = 0
    /\ sent_log = <<>>
    /\ matched_acks = 0
    /\ try_pc = "none"
    /\ try_result = Running
    /\ CodecOff

\* ------------------------------------------------------- pieces of the code
\* a CONNACK; assigned tells whether it carries the AssignedClientId property
ConnAckPkt(reason, assigned) ==
    [kind |-> "ConnAck", qos |-> 0, packet_id |-> NoId, reason |-> reason,
     tag |-> 0, assigned |-> assigned]

\* handle_connack that leaves the connected flag as it finds it on a refusal
HandleConnack_KeepsFlag(c) ==
    IF c.reason # "Success"
    THEN [connected |-> connected, error |-> MqttError("Protocol", c.reason),
          relock |-> FALSE]
    ELSE [connected |-> TRUE, error |-> NoError, relock |-> FALSE]

\* handle_connack that accepts a CONNACK without the assigned client ID
HandleConnack_NoIdCheck(c) ==
    IF c.reason # "Success"
    THEN [connected |-> FALSE, error |-> MqttError("Protocol", c.reason),
          relock |-> FALSE]
    ELSE [connected |-> TRUE, error |-> NoError,
          relock |-> ~client_id_set /\ c.assigned]

\* handle_connack: the new value of connected and the error it returns
\* (NoError for Ok).  relock: the function locks client_id a second time
\* while it still holds the guard taken on entry, which happens when no
\* client ID is set and the CONNACK assigns one
HandleConnack(c) ==
    IF c.reason # "Success"
    THEN [connected |-> FALSE, error |-> MqttError("Protocol", c.reason),
          relock |-> FALSE]
    ELSE IF client_id_set
    THEN [connected |-> TRUE, error |-> NoError, relock |-> FALSE]
    ELSE IF c.assigned
    THEN [connected |-> TRUE, error |-> NoError, relock |-> TRUE]
    ELSE [connected |-> TRUE, error |-> MqttError("Protocol", "InvalidClientId"),
          relock |-> FALSE]

\* the thread is inside Mutex::lock on a mutex it already holds
Relock == [status |-> "relock", error |-> NoError, site |-> "handshake"]

\* what Mutex::lock does then: it does not return; it panics or blocks
RelockOutcomes == {"panic", "blocked"}

\* send_connect after the CONNECT frame was handed to write_all: what the
\* match on read_next yields
SendConnectOutcome(write_ok, resp) ==
    IF ~write_ok
    THEN [connected |-> connected,
          res |-> ThreadErr(MqttError("Transport", "NA"), "handshake")]
    ELSE CASE resp.kind = "ConnAck" ->
                LET h == HandleConnack(resp) IN
                [connected |-> h.connected,
                 res |-> IF h.relock THEN Relock
                         ELSE IF h.error = NoError THEN Running
                         ELSE ThreadErr(h.error, "handshake")]
           [] resp.kind = "Disconnect" ->
                [connected |-> connected, res |-> ThreadPanic("handshake")]
           [] resp.kind \in {"Timeout", "DecodeErr", "IOErr"} ->
                [connected |-> connected,
                 res |-> ThreadErr(MqttError("Transport", "NA"), "handshake")]
           [] OTHER ->
                [connected |-> connected,
                 res |-> ThreadErr(MqttError("Protocol", "ProtocolErr"), "handshake")]

\* what the broker can answer to CONNECT, as seen by read_next; a broker
\* assigns a client ID only to a client that sent none
HandshakeResponses ==
    {ConnAckPkt(r, a) : r \in BrokerReasons,
                        a \in IF client_id_set THEN {FALSE} ELSE BOOLEAN}
    \cup {Pkt("Disconnect", 0, NoId, "ServerShutdown", 0)}
    \cup {Pkt("PingResponse", 0, NoId, "Success", 0)}
    \cup {Pkt(k, 0, NoId, "Success", 0) : k \in EmptyReads}

\* a loop that ends cleanly when the consumer channel is closed
ConsumerClosed_Clean == ThreadOk("consumer_closed")

\* what the thread returns when packet_recv.send fails
ConsumerClosed == ThreadErr(MqttError("Transport", "NA"), "consumer_closed")

\* a PubAck that does not take over the packet ID of the publish
PubAckFor_NoId(publish) == Pkt("PubAck", 0, 0, "Success", 0)

\* PubResp::new_puback() with the packet ID of the inbound publish
PubAckFor(publish) == Pkt("PubAck", 0, publish.packet_id, "Success", 0)

\* a Disconnect reported with a fixed reason instead of the peer's
DisconnectError_FixedReason(d) == MqttError("Protocol", "ProtocolErr")

\* the error returned when the peer's Disconnect d is dispatched
DisconnectError(d) == MqttError("Protocol", d.reason)

\* the Vec the pending store holds after pending_publish was appended to it
FlushPending(store, pending) == store \o pending

\* credit after a PubAck that matched an entry of pending_recv_ack
PubAckCredit(credit) == IF credit < receive_max THEN credit + 1 ELSE credit

\* a gate that also lets a publish through when no credit is left
HasCredit_OffByOne(credit) == credit >= 0

\* the gate of a direct QoS-1 transmission
HasCredit(credit) == credit > 0

\* a deferral that accepts one packet more than the capacity
QueueHasRoom_OneMore(len) == len <= MAX_QUEUE_LEN

\* the test that guards pending_publish.push
QueueHasRoom(len) == len < MAX_QUEUE_LEN

\* credit after a publish drained from pending_publish was written
DrainCredit(credit) == credit + 1

\* last_packet_id += 1 on a u16, where the addition does not panic
NextPacketId(id) == (id + 1) % 65536

\* whether last_packet_id += 1 panics: never below u16::MAX; at u16::MAX
\* a build with overflow checks panics and a build without them wraps
OverflowPanics(id) == IF id = 65535 THEN BOOLEAN ELSE {FALSE}

\* outcomes write_all can have on a stream whose state is broken
WriteOutcomes(broken) == IF broken THEN {FALSE} ELSE BOOLEAN

\* the stream's log of successfully written packets after write_all
Written(w, pkt, ok) == IF ok THEN Append(w, pkt) ELSE w

\* ------------------------------------------------------------ application
\* producer.send(packet), MqttClient::subscribe, MqttClient::stop.  The
\* session thread looks at the channel only in recv_timeout, so an enqueue
\* that happens while the thread is elsewhere is taken at the next
\* recv_timeout.
AppSend ==
    /\ Len(sent_log) < MaxSends
    /\ pc = "send"
    /\ \E p \in OutboundPackets(auto_packet_id, Len(sent_log) + 1) :
          /\ packet_send' = Append(packet_send, p)
          /\ sent_log' = Append(sent_log, p)
    /\ UNCHANGED <<codec, caller, cfg, shared, packet_recv, consumer_alive, pc, result, starts,
                   locals, stream, connack, last_frame, frames_in, matched_acks>>

\* the client and every clone of the consumer channel are dropped; the
\* thread notices it only in packet_recv.send, i.e. after the next read
DropConsumers ==
    /\ consumer_alive
    /\ pc = "read"
    /\ consumer_alive' = FALSE
    /\ UNCHANGED <<codec, caller, cfg, shared, packet_send, packet_recv, pc, result, starts,
                   locals, stream, connack, last_frame, frames_in, sent_log,
                   matched_acks>>

\* ------------------------------------------------------------------ start
\* MqttClient::start up to thread::spawn, on a fresh connection
StartThread ==
    /\ starts' = starts + 1
    /\ pc' = "connect"
    /\ result' = Running
    /\ last_packet_id' = 0
    /\ pending_recv_ack' = EmptyMap
    /\ pending_publish' = <<>>
    /\ qos_1_remaining' = 0
    /\ stream_shut' = FALSE
    /\ wire' = <<>>
    /\ write_failed' = FALSE
    /\ connack' = NoFrame
    /\ last_frame' = NoFrame
    /\ matched_acks' = 0
    /\ UNCHANGED <<codec, cfg, shared, packet_send, packet_recv, consumer_alive,
                   frames_in, sent_log>>

\* the first start of a constructed client
Start ==
    /\ pc = "idle"
    /\ StartThread
    /\ UNCHANGED <<codec, caller>>

\* start is called again after the session thread has terminated
Restart ==
    /\ pc = "terminated"
    /\ starts < MaxStarts
    /\ consumer_alive
    /\ StartThread
    /\ UNCHANGED <<codec, caller>>

\* set_read_timeout returns Err
SetReadTimeoutFails ==
    /\ pc = "connect"
    /\ pc' = "terminated"
    /\ result' = ThreadErr(MqttError("Transport", "NA"), "set_read_timeout")
    /\ UNCHANGED <<codec, caller, cfg, shared, packet_send, packet_recv, consumer_alive, starts,
                   locals, stream, connack, last_frame, frames_in, sent_log,
                   matched_acks>>

\* try_start holds the guard of last_error from the lock at line 304 until
\* it returns, i.e. all the time it waits in handle.join()
LastErrorLocked == try_pc = "join"

\* send_connect and the match on its result in start.  The Err arm locks
\* last_error first: while try_start holds that lock the thread waits there
SendConnect ==
    /\ pc = "connect"
    /\ \E ok \in WriteOutcomes(write_failed), resp \in HandshakeResponses :
          LET out == SendConnectOutcome(ok, resp) IN
          /\ connack' = IF ok THEN resp ELSE NoFrame
          /\ wire' = Written(wire, Pkt("Connect", 0, NoId, "Success", 0), ok)
          /\ write_failed' = (write_failed \/ ~ok)
          /\ connected' = out.connected
          /\ IF out.res = Running
             THEN /\ pc' = "read"
                  /\ pending_recv_ack' = EmptyMap
                  /\ pending_publish' = pending_qos1
                  /\ pending_qos1' = <<>>
                  /\ qos_1_remaining' = receive_max
                  /\ UNCHANGED <<result, last_error, stream_shut>>
             ELSE IF out.res = Relock
             THEN /\ \E o \in RelockOutcomes :
                        IF o = "panic"
                        THEN /\ pc' = "terminated"
                             /\ result' = ThreadPanic("handshake")
                        ELSE /\ pc' = "blocked"
                             /\ UNCHANGED result
                  /\ UNCHANGED <<last_error, stream_shut, pending_recv_ack,
                                 pending_publish, pending_qos1, qos_1_remaining>>
             ELSE IF out.res.status = "err" /\ LastErrorLocked
             THEN /\ pc' = "lock_wait"
                  /\ UNCHANGED <<result, last_error, stream_shut, pending_recv_ack,
                                 pending_publish, pending_qos1, qos_1_remaining>>
             ELSE /\ pc' = "terminated"
                  /\ result' = out.res
                  /\ IF out.res.status = "err"
                     THEN /\ last_error' = out.res.error
                          /\ stream_shut' = TRUE
                     ELSE UNCHANGED <<last_error, stream_shut>>
                  /\ UNCHANGED <<pending_recv_ack, pending_publish,
                                 pending_qos1, qos_1_remaining>>
    /\ UNCHANGED <<codec, caller, cfg, packet_send, packet_recv, consumer_alive, starts,
                   last_packet_id, last_frame, frames_in, sent_log, matched_acks>>

\* --------------------------------------------------- steady state: inbound
\* what read_next yields for buffered bytes that decode fails on with an
\* error other than InsufficientData
MalformedFrame == Pkt("DecodeErr", 0, NoId, "Success", 0)

\* read_next returns early with the decode error while the buffer starts
\* with such bytes: it neither consumes them nor reads from the stream
BufferStuck == last_frame = MalformedFrame

\* read_next returned Ok(Some(f)): common part of the dispatch of f
Recv(f) ==
    /\ pc = "read"
    /\ frames_in < MaxInbound
    /\ ~BufferStuck
    /\ last_frame' = f
    /\ frames_in' = frames_in + 1
    /\ UNCHANGED <<codec, caller, cfg, connected, last_error, packet_send, consumer_alive,
                   starts, last_packet_id, connack, sent_log>>

\* a dispatch that leaves the frame out of the consumer channel
Forward_Drop(p) ==
    /\ pc' = "send"
    /\ UNCHANGED <<packet_recv, result, stream_shut, pending_qos1, pending_publish>>

\* packet_recv.send(p.clone()) and the error path behind it
Forward(p) ==
    IF consumer_alive
    THEN /\ packet_recv' = Append(packet_recv, p)
         /\ pc' = "send"
         /\ UNCHANGED <<result, stream_shut, pending_qos1, pending_publish>>
    ELSE /\ stream_shut' = TRUE
         /\ pending_qos1' = FlushPending(pending_qos1, pending_publish)
         /\ pending_publish' = <<>>
         /\ pc' = "terminated"
         /\ result' = ConsumerClosed
         /\ UNCHANGED packet_recv

\* read_next returned Ok(None) or Err(e), e of kind Timeout or IO (nothing
\* complete to decode), or again the decode error of a stuck buffer:
\* nothing is dispatched, the Err arm is empty, and the loop goes on to the
\* outbound queue
ReadIdle ==
    /\ pc = "read"
    /\ pc' = "send"
    /\ UNCHANGED <<codec, caller, cfg, shared, packet_send, packet_recv, consumer_alive,
                   result, starts, locals, stream, connack, last_frame, frames_in,
                   sent_log, matched_acks>>

\* the bytes read from the stream are a structurally invalid frame:
\* read_next returns Err of kind Protocol(ProtocolErr), which the Err arm
\* of the loop ignores
ReadMalformed ==
    /\ pc = "read"
    /\ frames_in < MaxInbound
    /\ ~BufferStuck
    /\ last_frame' = MalformedFrame
    /\ frames_in' = frames_in + 1
    /\ pc' = "send"
    /\ UNCHANGED <<codec, caller, cfg, shared, packet_send, packet_recv, consumer_alive,
                   result, starts, locals, stream, connack, sent_log, matched_acks>>

\* Packet::Disconnect(d)
RecvDisconnect ==
    \E f \in InboundFrames :
        /\ f.kind = "Disconnect"
        /\ Recv(f)
        /\ stream_shut' = TRUE
        /\ pending_qos1' = FlushPending(pending_qos1, pending_publish)
        /\ pending_publish' = <<>>
        /\ pc' = "terminated"
        /\ result' = ThreadErr(DisconnectError(f), "peer_disconnect")
        /\ UNCHANGED <<packet_recv, pending_recv_ack, qos_1_remaining, wire,
                       write_failed, matched_acks>>

\* Packet::Publish(publish)
RecvPublish ==
    \E f \in InboundFrames :
        /\ f.kind = "Publish"
        /\ Recv(f)
        /\ UNCHANGED <<pending_recv_ack, qos_1_remaining, matched_acks>>
        /\ CASE f.qos = 2 ->
                  \* todo!()
                  /\ pc' = "terminated"
                  /\ result' = ThreadPanic("qos2_publish")
                  /\ UNCHANGED <<packet_recv, stream, pending_qos1, pending_publish>>
             [] f.qos = 1 /\ auto_ack /\ f.packet_id = NoId ->
                  /\ stream_shut' = TRUE
                  /\ pc' = "terminated"
                  /\ result' = ThreadErr(MqttError("Protocol", "MalformedPacket"),
                                         "no_packet_id")
                  /\ UNCHANGED <<packet_recv, wire, write_failed, pending_qos1,
                                 pending_publish>>
             [] f.qos = 1 /\ auto_ack /\ f.packet_id # NoId ->
                  /\ \E ok \in WriteOutcomes(write_failed) :
                        /\ wire' = Written(wire, PubAckFor(f), ok)
                        /\ write_failed' = (write_failed \/ ~ok)
                  /\ Forward(f)
             [] OTHER ->
                  /\ UNCHANGED <<wire, write_failed>>
                  /\ Forward(f)

\* a PubAck arm that restores credit whether or not the ID was pending
RecvPubAck_AlwaysCredits ==
    \E f \in InboundFrames :
        /\ f.kind = "PubAck"
        /\ Recv(f)
        /\ pending_recv_ack' = MapRemove(pending_recv_ack, f.packet_id)
        /\ qos_1_remaining' = PubAckCredit(qos_1_remaining)
        /\ matched_acks' = IF f.packet_id \in DOMAIN pending_recv_ack
                           THEN matched_acks + 1 ELSE matched_acks
        /\ UNCHANGED <<wire, write_failed>>
        /\ Forward(f)

\* Packet::PubAck(puback)
RecvPubAck ==
    \E f \in InboundFrames :
        /\ f.kind = "PubAck"
        /\ Recv(f)
        /\ IF f.packet_id \in DOMAIN pending_recv_ack
           THEN /\ pending_recv_ack' = MapRemove(pending_recv_ack, f.packet_id)
                /\ qos_1_remaining' = PubAckCredit(qos_1_remaining)
                /\ matched_acks' = matched_acks + 1
           ELSE UNCHANGED <<pending_recv_ack, qos_1_remaining, matched_acks>>
        /\ UNCHANGED <<wire, write_failed>>
        /\ Forward(f)

\* every other packet kind
RecvOther ==
    \E f \in InboundFrames :
        /\ f.kind \notin {"Disconnect", "Publish", "PubAck"}
        /\ Recv(f)
        /\ UNCHANGED <<pending_recv_ack, qos_1_remaining, matched_acks, wire,
                       write_failed>>
        /\ Forward(f)

\* -------------------------------------------------- steady state: outbound
\* recv_timeout returned Err: nothing to send in this iteration
SendIdle ==
    /\ pc = "send"
    /\ packet_send = <<>>
    /\ pc' = "read"
    /\ UNCHANGED <<codec, caller, cfg, shared, packet_send, packet_recv, consumer_alive,
                   result, starts, locals, stream, connack, last_frame, frames_in,
                   sent_log, matched_acks>>

\* a packet was dequeued: common part
Dequeue ==
    /\ pc = "send"
    /\ packet_send # <<>>
    /\ packet_send' = Tail(packet_send)
    /\ UNCHANGED <<codec, caller, cfg, connected, last_error, packet_recv, consumer_alive,
                   starts, connack, last_frame, frames_in, sent_log, matched_acks>>

\* Packet::Publish(p) with p.qos() == AtLeastOnce
SendPublishQoS1 ==
    /\ Dequeue
    /\ Head(packet_send).kind = "Publish"
    /\ Head(packet_send).qos = 1
    /\  LET packet == Head(packet_send)
            new_id == IF auto_packet_id THEN NextPacketId(last_packet_id)
                      ELSE last_packet_id
            p == IF auto_packet_id THEN [packet EXCEPT !.packet_id = new_id]
                 ELSE packet
            recorded == auto_packet_id \/ packet.packet_id # NoId
        IN
        \E panics \in IF auto_packet_id THEN OverflowPanics(last_packet_id)
                      ELSE {FALSE} :
        IF panics
        THEN /\ pc' = "terminated"
             /\ result' = ThreadPanic("packet_id_overflow")
             /\ UNCHANGED <<locals, stream, pending_qos1>>
        ELSE
        /\ last_packet_id' = new_id
        /\ pending_recv_ack' = IF recorded
                               THEN MapInsert(pending_recv_ack, p.packet_id, p)
                               ELSE pending_recv_ack
        /\ UNCHANGED <<result, stream_shut, pending_qos1>>
        /\ IF HasCredit(qos_1_remaining)
           THEN /\ qos_1_remaining' = qos_1_remaining - 1
                /\ \E ok \in WriteOutcomes(write_failed) :
                      /\ wire' = Written(wire, p, ok)
                      /\ write_failed' = (write_failed \/ ~ok)
                /\ pc' = "drain"
                /\ UNCHANGED pending_publish
           ELSE IF QueueHasRoom(Len(pending_publish))
           THEN /\ pending_publish' = Append(pending_publish, p)
                /\ pc' = "read"
                /\ UNCHANGED <<qos_1_remaining, wire, write_failed>>
           ELSE /\ \E ok \in WriteOutcomes(write_failed) :
                      /\ wire' = Written(wire, packet, ok)
                      /\ write_failed' = (write_failed \/ ~ok)
                /\ pc' = "drain"
                /\ UNCHANGED <<qos_1_remaining, pending_publish>>

\* Packet::Disconnect(_d)
SendDisconnect ==
    /\ Dequeue
    /\ Head(packet_send).kind = "Disconnect"
    /\ \E ok \in WriteOutcomes(write_failed) :
        /\ wire' = Written(wire, Head(packet_send), ok)
        /\ write_failed' = (write_failed \/ ~ok)
    /\ stream_shut' = TRUE
    /\ pending_qos1' = FlushPending(pending_qos1, pending_publish)
    /\ pending_publish' = <<>>
    /\ pc' = "terminated"
    /\ result' = ThreadOk("stop")
    /\ UNCHANGED <<last_packet_id, pending_recv_ack, qos_1_remaining>>

\* every other packet, a Publish at another QoS included
SendOther ==
    /\ Dequeue
    /\ Head(packet_send).kind # "Disconnect"
    /\ ~(Head(packet_send).kind = "Publish" /\ Head(packet_send).qos = 1)
    /\ \E ok \in WriteOutcomes(write_failed) :
        /\ wire' = Written(wire, Head(packet_send), ok)
        /\ write_failed' = (write_failed \/ ~ok)
    /\ pc' = "drain"
    /\ UNCHANGED <<result, stream_shut, pending_qos1, locals>>

\* the drain loop's condition holds: the head of pending_publish is taken
\* out to be sent (it stays listed in pending_publish until it is written)
DrainTake ==
    /\ pc = "drain"
    /\ pending_publish # <<>>
    /\ qos_1_remaining > 0
    /\ pc' = "drain_send"
    /\ UNCHANGED <<codec, caller, cfg, shared, packet_send, packet_recv, consumer_alive,
                   result, starts, locals, stream, connack, last_frame, frames_in,
                   sent_log, matched_acks>>

\* the packet taken out is written, or put back at the front when the
\* write fails; then the loop condition is tested again
Drain ==
    /\ pc = "drain_send"
    /\ pc' = "drain"
    /\ \E ok \in WriteOutcomes(write_failed) :
        /\ wire' = Written(wire, Head(pending_publish), ok)
        /\ write_failed' = (write_failed \/ ~ok)
        /\ pending_publish' = IF ok THEN Tail(pending_publish) ELSE pending_publish
        /\ qos_1_remaining' = IF ok THEN DrainCredit(qos_1_remaining)
                              ELSE qos_1_remaining
    /\ UNCHANGED <<codec, caller, cfg, shared, packet_send, packet_recv, consumer_alive,
                   result, starts, last_packet_id, pending_recv_ack, stream_shut,
                   connack, last_frame, frames_in, sent_log, matched_acks>>

\* the drain loop's condition is false: next iteration of the session loop
DrainDone ==
    /\ pc = "drain"
    /\ ~(pending_publish # <<>> /\ qos_1_remaining > 0)
    /\ pc' = "read"
    /\ UNCHANGED <<codec, caller, cfg, shared, packet_send, packet_recv, consumer_alive, result,
                   starts, locals, stream, connack, last_frame, frames_in,
                   sent_log, matched_acks>>

\* -------------------------------------------------------------- try_start
\* try_start calls start and enters its polling loop
TryStart ==
    /\ pc = "idle"
    /\ try_pc = "none"
    /\ StartThread
    /\ try_pc' = "poll"
    /\ UNCHANGED try_result

\* what try_start returns once the session thread has been joined: the
\* thread's own error, a Transport error when the thread panicked, and the
\* content of the last-error slot when the thread returned Ok
JoinOutcome(res, slot) ==
    CASE res.status = "err" -> ThreadErr(res.error, "try_start")
      [] res.status = "panic" -> ThreadErr(MqttError("Transport", "NA"), "try_start")
      [] OTHER -> ThreadErr(slot, "try_start")

\* one test of the loop condition and of the last-error slot
TryPoll ==
    /\ try_pc = "poll"
    /\ IF connected
       THEN /\ try_pc' = "returned"
            /\ try_result' = ThreadOk("try_start")
       ELSE /\ try_pc' = IF last_error # NoError THEN "join" ELSE "sleep"
            /\ UNCHANGED try_result
    /\ UNCHANGED <<codec, cfg, shared, packet_send, packet_recv, consumer_alive, pc, result,
                   starts, locals, stream, connack, last_frame, frames_in, sent_log,
                   matched_acks>>

\* handle.join() returns when the session thread has ended
TryJoin ==
    /\ try_pc = "join"
    /\ pc = "terminated"
    /\ try_pc' = "returned"
    /\ try_result' = JoinOutcome(result, last_error)
    /\ UNCHANGED <<codec, cfg, shared, packet_send, packet_recv, consumer_alive, pc, result,
                   starts, locals, stream, connack, last_frame, frames_in, sent_log,
                   matched_acks>>

\* the 100 ms sleep is over: max_wait has elapsed or the loop goes round
TryWake ==
    /\ try_pc = "sleep"
    /\ \E elapsed \in BOOLEAN :
          IF elapsed
          THEN /\ try_pc' = "returned"
               /\ try_result' = ThreadErr(MqttError("Timeout", "NA"), "try_start")
          ELSE /\ try_pc' = "poll"
               /\ UNCHANGED try_result
    /\ UNCHANGED <<codec, cfg, shared, packet_send, packet_recv, consumer_alive, pc, result,
                   starts, locals, stream, connack, last_frame, frames_in, sent_log,
                   matched_acks>>

\* ------------------------------------------------------------ specification
\* steps of the session loop
Loop ==
    \/ ReadIdle
    \/ ReadMalformed
    \/ RecvDisconnect
    \/ RecvPublish
    \/ RecvPubAck
    \/ RecvOther
    \/ SendIdle
    \/ SendPublishQoS1
    \/ SendDisconnect
    \/ SendOther
    \/ DrainTake
    \/ Drain
    \/ DrainDone

\* steps of the session thread
Thread ==
    \/ SetReadTimeoutFails
    \/ SendConnect
    \/ Loop

Next ==
    \/ AppSend
    \/ DropConsumers
    \/ Start
    \/ Thread

Spec == Init /\ [][Next]_vars

\* the same client started again after a session has ended
NextRestart == Next \/ Restart
RestartInit == Init /\ receive_max = 1 /\ auto_packet_id /\ auto_ack
RestartSpec == RestartInit /\ [][NextRestart]_vars
\* the restarted client with a session thread that keeps taking steps
RestartLiveSpec == RestartInit /\ [][NextRestart]_vars /\ WF_vars(Thread)

\* the session thread is a dedicated thread whose only suspension points are
\* the two bounded polling waits, so it keeps taking steps
LiveInit == Init /\ receive_max = 1 /\ auto_packet_id /\ auto_ack
LiveSpec == LiveInit /\ [][Next]_vars /\ WF_vars(Thread)

\* send_connect and handle_connack take the client ID as an Option; a client
\* made by MqttClient::new always has one, and this specification covers the
\* handshake for a client ID that is None as well
AnyIdInit ==
    /\ auto_ack \in BOOLEAN
    /\ auto_packet_id \in BOOLEAN
    /\ receive_max \in 0..MaxReceiveMax
    /\ client_id_set \in BOOLEAN
    /\ connected = FALSE
    /\ last_error = NoError
    /\ pending_qos1 = <<>>
    /\ packet_send = <<>>
    /\ packet_recv = <<>>
    /\ consumer_alive = TRUE
    /\ pc = "idle"
    /\ result = Running
    /\ starts = 0
    /\ last_packet_id = 0
    /\ pending_recv_ack = EmptyMap
    /\ pending_publish = <<>>
    /\ qos_1_remaining = 0
    /\ stream_shut = FALSE
    /\ wire = <<>>
    /\ write_failed = FALSE
    /\ connack = NoFrame
    /\ last_frame = NoFrame
    /\ frames_in = 0
    /\ sent_log = <<>>
    /\ matched_acks = 0
    /\ try_pc = "none"
    /\ try_result = Running
    /\ CodecOff
AnyIdSpec == AnyIdInit /\ [][Next]_vars

\* a client started through try_start; the caller polls while the session
\* thread runs
NextTry ==
    \/ TryStart
    \/ TryPoll
    \/ TryJoin
    \/ TryWake
    \/ AppSend
    \/ DropConsumers
    \/ Thread
TryInit == Init /\ receive_max = 1 /\ auto_packet_id /\ auto_ack
TrySpec == TryInit /\ [][NextTry]_vars

\* try_start is called again on the same client after a start whose
\* handshake failed: the thread of that start has ended and its error is in
\* last_error, which nothing clears
TryStartAgain ==
    /\ pc = "terminated"
    /\ try_pc = "returned"
    /\ last_error # NoError
    /\ starts < MaxStarts
    /\ consumer_alive
    /\ StartThread
    /\ try_pc' = "poll"
    /\ try_result' = Running
    /\ UNCHANGED codec

\* a client whose try_start is repeated after a failed handshake
NextTryAgain == NextTry \/ TryStartAgain
TryAgainSpec == TryInit /\ [][NextTryAgain]_vars

\* a session in auto packet-ID mode that has been running for long: the
\* loop has assigned the IDs up to last_packet_id and every publish so far
\* was written and acknowledged.  The logs start after the handshake.
LongSessionInit ==
    /\ auto_ack = TRUE
    /\ auto_packet_id = TRUE
    /\ receive_max = 1
    /\ client_id_set = TRUE
    /\ connected = TRUE
    /\ last_error = NoError
    /\ pending_qos1 = <<>>
    /\ packet_send = <<>>
    /\ packet_recv = <<>>
    /\ consumer_alive = TRUE
    /\ pc = "read"
    /\ result = Running
    /\ starts = 1
    /\ last_packet_id \in (65535 - MaxIdGap)..65535
    /\ pending_recv_ack = EmptyMap
    /\ pending_publish = <<>>
    /\ qos_1_remaining = receive_max
    /\ stream_shut = FALSE
    /\ wire = <<Pkt("Connect", 0, NoId, "Success", 0)>>
    /\ write_failed = FALSE
    /\ connack = ConnAckPkt("Success", FALSE)
    /\ last_frame = NoFrame
    /\ frames_in = 0
    /\ sent_log = <<>>
    /\ matched_acks = 0
    /\ try_pc = "none"
    /\ try_result = Running
    /\ CodecOff
NextLongSession ==
    \/ AppSend
    \/ DropConsumers
    \/ Loop
LongSessionSpec == LongSessionInit /\ [][NextLongSession]_vars

\* -------------------------------------------------------- vaux-mqtt codec
\* A buffer (BytesMut, Vec<u8>, &[u8]) is a sequence of bytes 0..255; get_u8
\* takes the head, put_u8 appends.

\* variable-length integers tried: 0..MaxSmallVal and the size boundaries
MaxSmallVal == 140
\* longest blob handed to encode_binary_data
MaxBlobLen == 2
\* frame bodies tried: 0..MaxBodyLen bytes and the two-byte-length boundary
MaxBodyLen == 2

\* largest value of four 7-bit groups, and the largest u32 tried (top bit
\* clear; its encoding has five bytes)
VarIntMax == 128 * 128 * 128 * 128 - 1
LargeU32 == VarIntMax * 8 + 7

VarIntInputs ==
    (0..MaxSmallVal)
    \cup {777, 16383, 16384, 2097151, 2097152, VarIntMax, VarIntMax + 1, LargeU32}
BlobBytes == {0, 1, 255}
Blobs == UNION {[1..n -> BlobBytes] : n \in 0..MaxBlobLen}
BodyLens == (0..MaxBodyLen) \cup {127, 128}

OutOk(bytes) == [NoOut EXCEPT !.kind = "Ok", !.bytes = bytes]
OutErr == [NoOut EXCEPT !.kind = "Err"]
OutNone == [NoOut EXCEPT !.kind = "None"]
OutPanic == [NoOut EXCEPT !.kind = "panic"]
OutInt(value, rest) == [NoOut EXCEPT !.kind = "Ok", !.value = value, !.rest = rest]
OutHeader(packet_type, flags, remaining) ==
    [NoOut EXCEPT !.kind = "Some", !.packet_type = packet_type,
                  !.flags = flags, !.value = remaining]

\* the byte one pass of the loop of encode_variable_len_integer writes:
\* the low seven bits, with the top bit set while more groups follow
NextByte_NoFlag(input_val) == input_val % 128

NextByte(input_val) ==
    (input_val % 128) + (IF input_val \div 128 > 0 THEN 128 ELSE 0)

RECURSIVE encode_variable_len_integer(_)
encode_variable_len_integer(input_val) ==
    IF input_val \div 128 > 0
    THEN <<NextByte(input_val)>> \o encode_variable_len_integer(input_val \div 128)
    ELSE <<NextByte(input_val)>>

RECURSIVE Pow2(_)
Pow2(n) == IF n = 0 THEN 1 ELSE 2 * Pow2(n - 1)

\* the loop of decode_variable_len_integer; get_u8 on an empty buffer panics.
\* The buffers decoded here are encodings of values up to LargeU32, for
\* which the sum never leaves the u32 range
RECURSIVE DecodeLoop(_, _, _)
DecodeLoop(src, partial, shift) ==
    IF src = <<>>
    THEN OutPanic
    ELSE LET next_byte == Head(src)
             sum == partial + (next_byte % 128) * Pow2(shift)
         IN IF next_byte < 128
            THEN OutInt(sum, Tail(src))
            ELSE DecodeLoop(Tail(src), sum, shift + 7)
decode_variable_len_integer(src) == DecodeLoop(src, 0, 0)

\* u16::MAX is the longest blob encode_binary_data takes
encode_binary_data(src) ==
    IF Len(src) > 65535
    THEN OutErr
    ELSE OutOk(<<Len(src) \div 256, Len(src) % 256>> \o src)

\* dest.resize(len, 0) puts len zero bytes into dest before the loop pushes
\* the len bytes of the blob behind them
decode_binary_data(src) ==
    IF Len(src) < 2
    THEN OutPanic
    ELSE LET len == src[1] * 256 + src[2]
         IN IF Len(src) - 2 < len
            THEN OutPanic
            ELSE [OutOk([i \in 1..len |-> 0] \o SubSeq(src, 3, 2 + len))
                    EXCEPT !.rest = SubSeq(src, 3 + len, Len(src))]

\* From<u8> for PacketType
PacketTypeFrom(byte) ==
    CASE byte \div 16 = 1 -> "Connect"
      [] byte \div 16 = 2 -> "ConnAck"
      [] byte \div 16 = 3 -> "Publish"
      [] byte \div 16 = 4 -> "PubAck"
      [] byte \div 16 = 5 -> "PubRec"
      [] byte \div 16 = 6 -> "PubRel"
      [] byte \div 16 = 7 -> "PubComp"
      [] byte \div 16 = 8 -> "Subscribe"
      [] byte \div 16 = 9 -> "SubAck"
      [] byte \div 16 = 10 -> "Unsubscribe"
      [] byte \div 16 = 11 -> "UnsubAck"
      [] byte \div 16 = 12 -> "PingReq"
      [] byte \div 16 = 13 -> "PingResp"
      [] byte \div 16 = 14 -> "Disconnect"
      [] OTHER -> "Auth"

\* the scan `for idx in 1..=3` of decode_fixed_header reads src[idx] (0-based)
\* while the bytes before it carry the continuation bit; an index past the
\* end of the buffer panics
ScanPanics(src) ==
    \E idx \in 1..3 :
        /\ idx >= Len(src)
        /\ \A j \in 1..(idx - 1) : src[j + 1] >= 128

\* the packet types whose flags are compared with PACKET_RESERVED_NONE; the
\* error built for a mismatch is dropped and the header is returned
HeaderTypes ==
    {"Connect", "PubRel", "Subscribe", "Unsubscribe", "ConnAck", "PubRec",
     "PubComp", "SubAck", "UnsubAck", "PingReq", "PingResp", "Disconnect",
     "Auth", "Publish"}

decode_fixed_header(src) ==
    IF Len(src) < 2
    THEN OutNone
    ELSE IF ScanPanics(src)
    THEN OutPanic
    ELSE LET first_byte == Head(src)
             packet_type == PacketTypeFrom(first_byte)
             flags == first_byte % 16
             remaining == decode_variable_len_integer(Tail(src))
         IN IF remaining.kind = "panic"
            THEN OutPanic
            ELSE IF Len(remaining.rest) # remaining.value
            THEN OutNone
            ELSE IF packet_type \in HeaderTypes
            THEN OutHeader(packet_type, flags, remaining.value)
            ELSE OutErr

\* an encoded frame: first byte, remaining length, body
Frame(first_byte, remaining) ==
    <<first_byte>> \o encode_variable_len_integer(remaining)
        \o [i \in 1..remaining |-> 0]

\* ---------------------------------------------------------- codec calls
\* encode_variable_len_integer(val, &mut dest); it returns nothing
EncodeVarInt ==
    /\ codec_op = "varint"
    /\ codec_pc = "input"
    /\ dest' = dest \o encode_variable_len_integer(val)
    /\ ret' = OutOk(<<>>)
    /\ codec_pc' = "encoded"
    /\ UNCHANGED <<codec_op, val, data, fed, reader>>
    /\ UNCHANGED <<caller, cfg, shared, packet_send, packet_recv, consumer_alive,
                   pc, result, starts, locals, stream, connack, last_frame,
                   frames_in, sent_log, matched_acks>>

\* decode_variable_len_integer(&mut dest)
DecodeVarInt ==
    /\ codec_op = "varint"
    /\ codec_pc = "encoded"
    /\ ret' = decode_variable_len_integer(dest)
    /\ dest' = ret'.rest
    /\ codec_pc' = "decoded"
    /\ UNCHANGED <<codec_op, val, data, fed, reader>>
    /\ UNCHANGED <<caller, cfg, shared, packet_send, packet_recv, consumer_alive,
                   pc, result, starts, locals, stream, connack, last_frame,
                   frames_in, sent_log, matched_acks>>

\* encode_binary_data(&data, &mut dest)
EncodeBinary ==
    /\ codec_op = "binary"
    /\ codec_pc = "input"
    /\ ret' = [encode_binary_data(data) EXCEPT !.bytes = <<>>]
    /\ dest' = dest \o encode_binary_data(data).bytes
    /\ codec_pc' = "encoded"
    /\ UNCHANGED <<codec_op, val, data, fed, reader>>
    /\ UNCHANGED <<caller, cfg, shared, packet_send, packet_recv, consumer_alive,
                   pc, result, starts, locals, stream, connack, last_frame,
                   frames_in, sent_log, matched_acks>>

\* decode_binary_data(&mut dest)
DecodeBinary ==
    /\ codec_op = "binary"
    /\ codec_pc = "encoded"
    /\ ret' = decode_binary_data(dest)
    /\ dest' = ret'.rest
    /\ codec_pc' = "decoded"
    /\ UNCHANGED <<codec_op, val, data, fed, reader>>
    /\ UNCHANGED <<caller, cfg, shared, packet_send, packet_recv, consumer_alive,
                   pc, result, starts, locals, stream, connack, last_frame,
                   frames_in, sent_log, matched_acks>>

\* decode_fixed_header on the whole frame at once
DecodeFrame ==
    /\ codec_op = "header"
    /\ codec_pc = "input"
    /\ fed' = Len(data)
    /\ ret' = decode_fixed_header(data)
    /\ codec_pc' = "decoded"
    /\ UNCHANGED <<codec_op, val, data, dest, reader>>
    /\ UNCHANGED <<caller, cfg, shared, packet_send, packet_recv, consumer_alive,
                   pc, result, starts, locals, stream, connack, last_frame,
                   frames_in, sent_log, matched_acks>>

\* one more byte of the frame arrives and read_next decodes a fresh copy of
\* what it has so far; a panic ends the thread
FeedByte ==
    /\ codec_op = "header"
    /\ codec_pc \in {"input", "feeding"}
    /\ fed < Len(data)
    /\ fed' = fed + 1
    /\ ret' = decode_fixed_header(SubSeq(data, 1, fed + 1))
    /\ codec_pc' = IF ret'.kind = "panic" \/ fed + 1 = Len(data)
                   THEN "decoded" ELSE "feeding"
    /\ UNCHANGED <<codec_op, val, data, dest, reader>>
    /\ UNCHANGED <<caller, cfg, shared, packet_send, packet_recv, consumer_alive,
                   pc, result, starts, locals, stream, connack, last_frame,
                   frames_in, sent_log, matched_acks>>

\* the session part stays as MqttClient::new leaves it
SessionIdle ==
    /\ auto_ack = TRUE
    /\ auto_packet_id = TRUE
    /\ receive_max = 1
    /\ client_id_set = TRUE
    /\ connected = FALSE
    /\ last_error = NoError
    /\ pending_qos1 = <<>>
    /\ packet_send = <<>>
    /\ packet_recv = <<>>
    /\ consumer_alive = TRUE
    /\ pc = "idle"
    /\ result = Running
    /\ starts = 0
    /\ last_packet_id = 0
    /\ pending_recv_ack = EmptyMap
    /\ pending_publish = <<>>
    /\ qos_1_remaining = 0
    /\ stream_shut = FALSE
    /\ wire = <<>>
    /\ write_failed = FALSE
    /\ connack = NoFrame
    /\ last_frame = NoFrame
    /\ frames_in = 0
    /\ sent_log = <<>>
    /\ matched_acks = 0
    /\ try_pc = "none"
    /\ try_result = Running

\* the inputs of the codec functions: an integer, a blob, or an encoded
\* frame of any packet type and flags
CodecInit ==
    /\ SessionIdle
    /\ codec_pc = "input"
    /\ dest = <<>>
    /\ fed = 0
    /\ ret = NoOut
    /\ ReaderOff
    /\ \/ codec_op = "varint" /\ val \in VarIntInputs /\ data = <<>>
       \/ codec_op = "binary" /\ val = 0 /\ data \in Blobs
       \/ /\ codec_op = "header"
          /\ val \in BodyLens
          /\ \E first_byte \in 0..255 : data = Frame(first_byte, val)
NextCodec ==
    \/ EncodeVarInt
    \/ DecodeVarInt
    \/ EncodeBinary
    \/ DecodeBinary
    \/ DecodeFrame
    \/ FeedByte
CodecSpec == CodecInit /\ [][NextCodec]_vars

\* --------------------------------------------------------------- read_next
\* The session thread's buffer is vec![0; max_packet_size]; buffer holds its
\* first *offset bytes (the bytes received and not yet decoded), so *offset
\* and bytes_read are Len(buffer).  data are the bytes the peer sends on
\* this connection, fed of them have been delivered by connection.read, and
\* eof tells whether the peer closes the stream behind them.  rn_pc:
\*   "new"       client constructed
\*   "set"       set_max_packet_size was called
\*   "call"      the thread is about to call read_next
\*   "decode"    in read_next, at the top of its loop       (line 696)
\*   "read"      in read_next, at connection.read           (line 726)
\*   "ended"     the handshake failed, the thread returned
\*   "panicked"  the thread panicked inside read_next
PacketSizes ==
    {DEFAULT_MAX_PACKET_SIZE - SizeSpread, DEFAULT_MAX_PACKET_SIZE,
     DEFAULT_MAX_PACKET_SIZE + SizeSpread}

\* first bytes of the frames the peer sends
ConnAckByte == 32
PublishByte == 48
PingRespByte == 208

ConnAckFrames == {Frame(ConnAckByte, n) : n \in {0, MaxReadBody}}
LaterFrames ==
    {Frame(PublishByte, n) : n \in 0..MaxReadBody} \cup {Frame(PingRespByte, 0)}

RECURSIVE Flatten(_)
Flatten(frames) ==
    IF frames = <<>> THEN <<>> ELSE Head(frames) \o Flatten(Tail(frames))

\* what a peer sends: a CONNACK and then up to MaxReadFrames frames; the
\* connection may break anywhere, so every prefix is possible
PeerStreams ==
    {c \o Flatten(fs) :
        c \in ConnAckFrames,
        fs \in UNION {[1..k -> LaterFrames] : k \in 0..MaxReadFrames}}
PeerData == UNION {{SubSeq(st, 1, n) : n \in 0..Len(st)} : st \in PeerStreams}

\* the buffer is shorter than the frame it starts with
Incomplete(buf) ==
    \/ Len(buf) < 2
    \/ LET remaining == decode_variable_len_integer(Tail(buf))
       IN remaining.kind = "Ok" /\ Len(remaining.rest) < remaining.value

\* decode as read_next calls it, on a copy of the buffered bytes.  The
\* header comes from decode_fixed_header; a packet comes with the number of
\* bytes it took, and a buffer that is too short is reported as the
\* InsufficientData error read_next matches on
ReadDecode(buf) ==
    LET h == decode_fixed_header(buf)
    IN CASE h.kind = "Some" -> [kind |-> "Some", len |-> Len(buf), header |-> h]
         [] h.kind = "None" /\ Incomplete(buf) ->
                [kind |-> "InsufficientData", len |-> 0, header |-> h]
         [] OTHER -> [kind |-> h.kind, len |-> 0, header |-> h]

\* the max_packet_size argument of the call: send_connect passes the
\* default, the loop passes the configured value
ReadLimit ==
    IF phase = "handshake" THEN DEFAULT_MAX_PACKET_SIZE ELSE max_packet_size

\* &mut buffer[*offset..max_packet_size] panics unless
\* *offset <= max_packet_size <= buffer.len()
SliceInBuffer(offset, limit, len) == offset <= limit /\ limit <= len

\* an error read_next returns; its kind stands in packet_type
ReadErr(kind) == [NoOut EXCEPT !.kind = "Err", !.packet_type = kind]

\* where the thread goes when read_next returns r: send_connect wants a
\* CONNACK and the thread ends without one; the loop calls read_next again
\* whatever it returned
AfterReturn(r) ==
    IF phase = "handshake" /\ ~(r.kind = "Some" /\ r.packet_type = "ConnAck")
    THEN "ended"
    ELSE "call"

Idle ==
    UNCHANGED <<caller, cfg, shared, packet_send, packet_recv, consumer_alive,
                pc, result, starts, locals, stream, connack, last_frame,
                frames_in, sent_log, matched_acks, codec_op, codec_pc, val, dest>>

\* MqttClient::set_max_packet_size
SetMaxPacketSize ==
    /\ rn_pc = "new"
    /\ \E n \in PacketSizes \ {max_packet_size} : max_packet_size' = n
    /\ rn_pc' = "set"
    /\ UNCHANGED <<data, fed, ret, buffer, eof, returned, phase>>
    /\ Idle

\* start: the thread allocates the buffer and enters send_connect
StartReader ==
    /\ rn_pc \in {"new", "set"}
    /\ buffer' = <<>>
    /\ phase' = "handshake"
    /\ rn_pc' = "call"
    /\ UNCHANGED <<data, fed, ret, max_packet_size, eof, returned>>
    /\ Idle

\* entry of read_next: bytes_read = *offset
CallReadNext ==
    /\ rn_pc = "call"
    /\ rn_pc' = IF Len(buffer) > 0 THEN "decode" ELSE "read"
    /\ UNCHANGED <<data, fed, ret, max_packet_size, buffer, eof, returned, phase>>
    /\ Idle

\* `if bytes_read > 0`: decode what is buffered
RnDecode ==
    /\ rn_pc = "decode"
    /\ LET d == ReadDecode(buffer) IN
       CASE d.kind = "Some" ->
                /\ returned' = Append(returned, SubSeq(buffer, 1, d.len))
                /\ buffer' = SubSeq(buffer, d.len + 1, Len(buffer))
                /\ ret' = d.header
                /\ rn_pc' = AfterReturn(d.header)
                /\ phase' = IF AfterReturn(d.header) = "call" THEN "steady" ELSE phase
         [] d.kind = "InsufficientData" ->
                /\ rn_pc' = "read"
                /\ UNCHANGED <<ret, buffer, returned, phase>>
         [] d.kind = "panic" ->
                /\ rn_pc' = "panicked"
                /\ UNCHANGED <<ret, buffer, returned, phase>>
         [] OTHER ->
                /\ ret' = IF d.kind = "None" THEN OutNone ELSE ReadErr("Protocol")
                /\ rn_pc' = AfterReturn(ret')
                /\ UNCHANGED <<buffer, returned, phase>>
    /\ UNCHANGED <<data, fed, max_packet_size, eof>>
    /\ Idle

\* connection.read(&mut buffer[*offset..max_packet_size]) and the match on
\* its result.  The socket hands over some of the bytes that have arrived,
\* 0 bytes when the slice is empty or the peer has closed the stream, and
\* times out when nothing has arrived; it can fail otherwise at any time
RnRead ==
    /\ rn_pc = "read"
    /\ IF ~SliceInBuffer(Len(buffer), ReadLimit, max_packet_size)
       THEN /\ rn_pc' = "panicked"
            /\ UNCHANGED <<fed, ret, buffer>>
       ELSE LET space == ReadLimit - Len(buffer)
                avail == Len(data) - fed
                most == IF space < avail THEN space ELSE avail
            IN \/ \E len \in 1..most :
                     /\ buffer' = buffer \o SubSeq(data, fed + 1, fed + len)
                     /\ fed' = fed + len
                     /\ rn_pc' = "decode"
                     /\ UNCHANGED ret
               \/ /\ space = 0 \/ (avail = 0 /\ eof)
                  /\ IF Len(buffer) = 0
                     THEN /\ ret' = OutNone
                          /\ rn_pc' = AfterReturn(OutNone)
                     ELSE /\ rn_pc' = "decode"
                          /\ UNCHANGED ret
                  /\ UNCHANGED <<fed, buffer>>
               \/ /\ space > 0 /\ avail = 0 /\ ~eof
                  /\ ret' = ReadErr("Timeout")
                  /\ rn_pc' = AfterReturn(ReadErr("Timeout"))
                  /\ UNCHANGED <<fed, buffer>>
               \/ /\ ret' = ReadErr("IO")
                  /\ rn_pc' = AfterReturn(ReadErr("IO"))
                  /\ UNCHANGED <<fed, buffer>>
    /\ UNCHANGED <<data, max_packet_size, eof, returned, phase>>
    /\ Idle

\* a constructed client, and what its peer is going to send
ReadInit ==
    /\ SessionIdle
    /\ codec_op = "off"
    /\ codec_pc = "off"
    /\ val = 0
    /\ dest = <<>>
    /\ fed = 0
    /\ ret = NoOut
    /\ max_packet_size = DEFAULT_MAX_PACKET_SIZE
    /\ buffer = <<>>
    /\ returned = <<>>
    /\ rn_pc = "new"
    /\ phase = "off"
    /\ data \in PeerData
    /\ eof \in BOOLEAN
ReadThread ==
    \/ CallReadNext
    \/ RnDecode
    \/ RnRead
NextRead ==
    \/ SetMaxPacketSize
    \/ StartReader
    \/ ReadThread
ReadSpec == ReadInit /\ [][NextRead]_vars
\* the thread keeps taking steps
ReadLiveSpec == ReadInit /\ [][NextRead]_vars /\ WF_vars(ReadThread)

\* ------------------------------------------------------------- properties
LoopPcs == {"read", "send", "drain", "drain_send"}
InLoop == pc \in LoopPcs

IsPublish(p) == p.kind = "Publish"
IsQos1Publish(p) == p.kind = "Publish" /\ p.qos = 1

\* the publishes written to the stream of this connection, in order
PublishesWritten == SelectSeq(wire, IsPublish)
Qos1Written == SelectSeq(wire, IsQos1Publish)

\* the packets the loop has taken from the outbound queue (the channel is FIFO)
Dequeued == SubSeq(sent_log, 1, Len(sent_log) - Len(packet_send))

NoPubAckArrived == \A i \in DOMAIN packet_recv : packet_recv[i].kind # "PubAck"

\* C1: in the session loop the number of entries of pending_recv_ack never
\* exceeds receive_max.
C1_PendingAckBounded ==
    InLoop => Cardinality(DOMAIN pending_recv_ack) <= receive_max

\* C2: the QoS-1 send credit never exceeds receive_max in the session loop.
C2_CreditBounded ==
    InLoop => qos_1_remaining <= receive_max

\* C3: the send credit equals receive_max minus the number of QoS-1
\* publishes written to the stream and not yet matched by a PubAck.
C3_CreditAccounting ==
    InLoop => qos_1_remaining = receive_max - (Len(Qos1Written) - matched_acks)

\* C4: a QoS-1 publish is appended to the stream only in a step that starts
\* with a send credit greater than zero.
C4_WriteNeedsCredit ==
    [][(Len(wire') = Len(wire) + 1 /\ IsQos1Publish(wire'[Len(wire')]))
          => qos_1_remaining > 0]_vars

\* C5: receive_max = 1, first session of a fresh client, the loop has
\* dequeued exactly two packets, both QoS-1 publishes, and finished
\* processing them, no PubAck has arrived and the stream is intact.
C5_TwoPublishesNoAck ==
    /\ receive_max = 1
    /\ starts = 1
    /\ pc \in {"read", "send"}
    /\ ~write_failed
    /\ NoPubAckArrived
    /\ Len(Dequeued) = 2
    /\ \A i \in 1..2 : IsQos1Publish(Dequeued[i])

\* C5: in that scenario exactly one publish, the first, has been written to
\* the stream and the second is the content of pending_publish.
C5_OneWrittenOneDeferred ==
    C5_TwoPublishesNoAck =>
        /\ Len(PublishesWritten) = 1
        /\ PublishesWritten[1].tag = Dequeued[1].tag
        /\ Len(pending_publish) = 1
        /\ pending_publish[1].tag = Dequeued[2].tag

C5_Witness ==
    /\ C5_TwoPublishesNoAck
    /\ Len(pending_publish) = 1
    /\ Len(PublishesWritten) = 1

\* C6: once a publish is deferred in pending_publish and a PubAck has
\* restored the credit, the publish is eventually written to the stream
\* (unless the session ends, the connection breaks or the client is
\* dropped), whatever the application does afterwards, in particular when
\* it enqueues nothing.
C6_DeferredEventuallySent ==
    \A t \in 1..MaxSends :
        (/\ InLoop
         /\ matched_acks >= 1
         /\ qos_1_remaining > 0
         /\ \E i \in DOMAIN pending_publish : pending_publish[i].tag = t)
        ~> (\/ \E i \in DOMAIN wire : IsPublish(wire[i]) /\ wire[i].tag = t
            \/ pc = "terminated"
            \/ write_failed
            \/ ~consumer_alive)

\* C7: the QoS-1 publishes appear on the stream in the order in which they
\* were enqueued on the outbound queue.
C7_WireOrder ==
    \A i, j \in DOMAIN Qos1Written :
        i < j => Qos1Written[i].tag < Qos1Written[j].tag

\* C8: after the loop ended on the peer's Disconnect, every publish that was
\* transmitted and still recorded in pending_recv_ack is in pending_qos1.
C8_InFlightRecovered ==
    (pc = "terminated" /\ result.site = "peer_disconnect") =>
        \A k \in DOMAIN pending_recv_ack :
            pending_recv_ack[k] \in Range(wire)
                => pending_recv_ack[k] \in Range(pending_qos1)

HandshakeFailed == pc = "terminated" /\ result.site = "handshake"

LastDequeued == Dequeued[Len(Dequeued)]
StopDequeued == Dequeued # <<>> /\ LastDequeued.kind = "Disconnect"

StopQueued == \E i \in DOMAIN packet_send : packet_send[i].kind = "Disconnect"

\* C13: once a Disconnect is on the outbound queue of a running session,
\* the session thread eventually terminates, whatever the stream does.
C13_StopTerminates ==
    (InLoop /\ StopQueued) ~> (pc = "terminated")

\* C14: when read_next has failed in steady state on a structurally invalid
\* frame, the session loop has ended and the thread's result is that
\* protocol error.
C14_DecodeErrorTerminates ==
    last_frame = MalformedFrame =>
        /\ pc = "terminated"
        /\ result.status = "err"
        /\ result.error = MqttError("Protocol", "ProtocolErr")

OnWire(t) == \E i \in DOMAIN wire : IsPublish(wire[i]) /\ wire[i].tag = t
Deferred(t) == \E i \in DOMAIN pending_publish : pending_publish[i].tag = t

\* C15: while the loop runs, every QoS-1 publish taken from the outbound
\* queue and still awaiting its PubAck was written to the stream or is held
\* in pending_publish.
C15_NoPublishLost ==
    InLoop =>
        \A k \in DOMAIN pending_recv_ack :
            OnWire(pending_recv_ack[k].tag) \/ Deferred(pending_recv_ack[k].tag)

\* the ways the loop ends that the pending store is to survive
LoopEndSites == {"peer_disconnect", "stop", "consumer_closed", "no_packet_id"}

\* C16: when the session loop has ended on the peer's Disconnect, an outbound
\* Disconnect, a closed consumer channel or a protocol error detected by the
\* loop, the packets that were in pending_publish are in pending_qos1 (the
\* flush moves them, so none is left in pending_publish).
C16_PendingFlushed ==
    (pc = "terminated" /\ result.site \in LoopEndSites) =>
        \A i \in DOMAIN pending_publish : pending_publish[i] \in Range(pending_qos1)

\* the step in which the loop dequeues a QoS-1 publish while the credit is
\* zero and pending_publish is full
DequeueWhenFull ==
    /\ pc = "send"
    /\ packet_send # <<>>
    /\ packet_send' = Tail(packet_send)
    /\ IsQos1Publish(Head(packet_send))
    /\ qos_1_remaining = 0
    /\ Len(pending_publish) = MAX_QUEUE_LEN

\* C17: that step terminates the session thread; it neither writes the
\* publish to the stream nor grows pending_publish.
C17_FullQueueTerminates ==
    [][DequeueWhenFull =>
          /\ pc' = "terminated"
          /\ wire' = wire
          /\ pending_publish' = pending_publish]_vars

\* C18: pending_publish never holds more than MAX_QUEUE_LEN packets, in the
\* first session and in a session that reloaded the pending store.
C18_PendingPublishBounded ==
    Len(pending_publish) <= MAX_QUEUE_LEN

C18_Witness ==
    /\ starts = 2
    /\ InLoop
    /\ Len(pending_publish) = MAX_QUEUE_LEN
    /\ qos_1_remaining = 0

\* C19: recording a QoS-1 publish never overwrites an entry of
\* pending_recv_ack: a packet ID that stays a key keeps its packet, so the
\* ID of a publish being recorded is not a key at that moment.
C19_RecordKeepsEntries ==
    [][\A k \in DOMAIN pending_recv_ack :
          k \in DOMAIN pending_recv_ack' => pending_recv_ack'[k] = pending_recv_ack[k]]_vars

\* the step in which the loop dequeues a QoS-1 publish in auto packet-ID mode
AutoIdAssigned ==
    /\ auto_packet_id
    /\ pc = "send"
    /\ packet_send # <<>>
    /\ packet_send' = Tail(packet_send)
    /\ IsQos1Publish(Head(packet_send))

\* C20: in auto packet-ID mode each QoS-1 publish gets the ID after the
\* previous one, 65535 is followed by 1, and the ID is never 0.
C20_AutoIdSequence ==
    [][AutoIdAssigned =>
          /\ last_packet_id' = (last_packet_id % 65535) + 1
          /\ last_packet_id' # 0]_vars

\* a step of the loop in which read_next returned a decoded frame
FrameDispatched == frames_in' = frames_in + 1 /\ last_frame' # MalformedFrame

\* the bookkeeping the loop owes the frame f it forwards
Bookkept(f) ==
    /\ (IsQos1Publish(f) /\ auto_ack) =>
           \/ wire' = Append(wire, PubAckFor(f))
           \/ write_failed'
    /\ (f.kind = "PubAck" /\ f.packet_id \in DOMAIN pending_recv_ack) =>
           /\ f.packet_id \notin DOMAIN pending_recv_ack'
           /\ qos_1_remaining' = PubAckCredit(qos_1_remaining)

Qos1PublishDispatched ==
    /\ FrameDispatched
    /\ IsQos1Publish(last_frame')
    /\ last_frame'.packet_id # NoId

\* C22: in the step that dispatches an inbound QoS-1 publish with packet ID
\* k, so before any later frame is read, a PubAck with packet ID k is
\* handed to the stream when auto_ack is enabled (it is the next packet on
\* the wire unless write_all fails); nothing is written when auto_ack is
\* disabled.
C22_AutoAck ==
    [][Qos1PublishDispatched =>
          IF auto_ack
          THEN \/ /\ Len(wire') = Len(wire) + 1
                  /\ wire'[Len(wire')].kind = "PubAck"
                  /\ wire'[Len(wire')].packet_id = last_frame'.packet_id
               \/ write_failed' /\ wire' = wire
          ELSE wire' = wire]_vars

C22_Witness ==
    /\ auto_ack
    /\ ~write_failed
    /\ Len(packet_recv) = 1
    /\ IsQos1Publish(packet_recv[1])
    /\ wire[Len(wire)].kind = "PubAck"
    /\ wire[Len(wire)].packet_id = packet_recv[1].packet_id

\* C23: when the frame read last is a Publish at QoS 1 or 2 without packet
\* ID, the loop has ended with Protocol(MalformedPacket) and the frame is not
\* on the consumer channel, whatever auto_ack is.
C23_NoPacketIdFatal ==
    (last_frame.kind = "Publish" /\ last_frame.qos >= 1
        /\ last_frame.packet_id = NoId) =>
        /\ pc = "terminated"
        /\ result.status = "err"
        /\ result.error = MqttError("Protocol", "MalformedPacket")
        /\ last_frame \notin Range(packet_recv)

C25_VarIntRoundTrip ==
    (codec_op = "varint" /\ val <= VarIntMax) =>
        /\ codec_pc = "encoded" =>
              /\ Len(dest) \in 1..4
              /\ val = 128 => dest = <<128, 1>>
              /\ val = 777 => dest = <<137, 6>>
        /\ codec_pc = "decoded" =>
              /\ ret.kind = "Ok"
              /\ ret.value = val
              /\ dest = <<>>
C25_Witness ==
    /\ codec_op = "varint"
    /\ codec_pc = "decoded"
    /\ val = VarIntMax
    /\ ret.value = VarIntMax

\* C26: for a value above 268,435,455 the encoding returns an error and
\* puts no byte into the buffer
C26_OutOfRangeFails ==
    (codec_op = "varint" /\ val > VarIntMax /\ codec_pc = "encoded") =>
        /\ ret.kind = "Err"
        /\ dest = <<>>

\* C27: decoding a whole Connect, Subscribe or PingReq frame whose flag bits
\* are not all zero gives a decode error, and a Publish frame is accepted
\* with whatever flags it carries
C27_ReservedFlags ==
    (codec_op = "header" /\ codec_pc = "decoded" /\ fed = Len(data)) =>
        LET packet_type == PacketTypeFrom(Head(data))
            flags == Head(data) % 16
        IN /\ (packet_type \in {"Connect", "Subscribe", "PingReq"} /\ flags # 0)
                 => ret.kind = "Err"
           /\ packet_type = "Publish"
                 => (ret.kind = "Some" /\ ret.flags = flags)

\* a frame a conforming peer sends: it has one of the fifteen packet types,
\* the whole of it decodes to a header, and its flags are zero unless it is
\* a Publish
ValidFrame ==
    /\ codec_op = "header"
    /\ Head(data) \div 16 \in 1..15
    /\ decode_fixed_header(data).kind = "Some"
    /\ PacketTypeFrom(Head(data)) = "Publish" \/ Head(data) % 16 = 0

\* C28: while only a proper prefix of a valid frame has arrived, byte by
\* byte, decoding reports that it needs more data (no packet, no decode
\* error, no panic); once the whole frame is there it returns the packet a
\* decode of the whole frame returns
C28_PrefixNeedsMore ==
    (ValidFrame /\ fed > 0) =>
        /\ fed < Len(data) => ret.kind = "None"
        /\ fed = Len(data) => ret = decode_fixed_header(data)

\* C29: decode_binary_data on what encode_binary_data wrote for a blob
\* returns that blob, byte for byte and of the same length
C29_BinaryRoundTrip ==
    (codec_op = "binary" /\ codec_pc = "decoded") =>
        /\ ret.kind = "Ok"
        /\ ret.bytes = data
        /\ Len(ret.bytes) = Len(data)

\* C30: a drain pass that has taken the head of pending_publish out for
\* writing ends, whatever the stream does: a failed write puts the packet
\* back and the session loop goes on to its next read.
C30_DrainTerminates ==
    (pc = "drain_send") ~> (pc \in {"read", "terminated"})

\* the second session has completed its handshake and taken over the
\* packets the first one left in the pending store; it has credit and has
\* not taken a QoS-1 publish from the outbound queue yet
Restored ==
    /\ starts = 2
    /\ InLoop
    /\ pending_publish # <<>>
    /\ pending_qos1 = <<>>
    /\ qos_1_remaining > 0
    /\ last_packet_id = 0

\* C31: the packets the next start takes from the pending store are written
\* to the new stream (or the session ends) without the application
\* enqueuing anything more
C31_RestoredWritten ==
    Restored ~> (pending_publish = <<>> \/ pc = "terminated")

\* lengths at which the bytes buffered start with one whole frame and go on
FirstFrameLens(buf) ==
    {n \in 2..(Len(buf) - 1) : decode_fixed_header(SubSeq(buf, 1, n)).kind = "Some"}

\* C32: when read_next decodes a buffer that holds one complete frame
\* followed by further bytes, it returns that frame and keeps exactly the
\* bytes behind it, at the start of the buffer, for the next call
C32_FrameThenMore ==
    [][(rn_pc = "decode" /\ FirstFrameLens(buffer) # {}) =>
          \E n \in FirstFrameLens(buffer) :
              /\ ret'.kind = "Some"
              /\ returned' = Append(returned, SubSeq(buffer, 1, n))
              /\ buffer' = SubSeq(buffer, n + 1, Len(buffer))]_vars

\* a step of the loop that dispatches a PubAck whose ID is not pending
UnmatchedPubAck ==
    /\ FrameDispatched
    /\ last_frame'.kind = "PubAck"
    /\ last_frame'.packet_id \notin DOMAIN pending_recv_ack

AssignedId ==
    /\ ~client_id_set
    /\ pc # "connect"
    /\ connack.kind = "ConnAck"
    /\ connack.reason = "Success"
    /\ connack.assigned

C35_HandshakeDisconnect ==
    (pc = "terminated" /\ connack.kind = "Disconnect") =>
        /\ result.status = "err"
        /\ last_error = result.error
        /\ stream_shut
        /\ ~connected

\* C36: once the session thread has terminated, connected() is false
C36_ConnectedOnlyWhileRunning ==
    pc = "terminated" => ~connected

\* C37: every call of read_next comes to an end: once the call is decoding
\* or reading, it eventually returns (a packet, None or an error) or unwinds,
\* also at end of stream with a partial frame buffered and with a full buffer
C37_ReadNextReturns ==
    (rn_pc \in {"decode", "read"}) ~> (rn_pc \in {"call", "ended", "panicked"})

\* C40: every read of read_next targets a range inside the session buffer:
\* the offset is at most the limit and the limit at most the buffer length
C40_ReadInsideBuffer ==
    rn_pc = "read" => SliceInBuffer(Len(buffer), ReadLimit, max_packet_size)

\* C39: every QoS-1 publish the session loop has written to the stream
\* carries a packet ID, in auto-assigned and in caller-supplied mode
C39_WrittenPublishHasId ==
    \A i \in 1..Len(wire) :
        (wire[i].kind = "Publish" /\ wire[i].qos = 1) => wire[i].packet_id # NoId

\* the second try_start on a client whose first handshake failed
SecondAttempt == starts = 2 /\ try_pc # "none"

\* the handshake of the current start has succeeded
HandshakeSucceeded ==
    /\ pc \notin {"connect", "lock_wait"}
    /\ connack.kind = "ConnAck"
    /\ connack.reason = "Success"

\* C38: the last-error slot only reflects the current attempt: a try_start
\* after a failed handshake returns Ok when the new handshake succeeds and
\* the new error when it fails, and session thread and caller never wait
\* for each other (the caller in join, the thread for the last-error lock)
C38_RetryReflectsNewAttempt ==
    SecondAttempt =>
        /\ ~(try_pc = "join" /\ pc = "lock_wait")
        /\ (try_pc = "returned" /\ HandshakeSucceeded) =>
               try_result = ThreadOk("try_start")
        /\ (try_pc = "returned" /\ pc = "terminated" /\ result.status = "err"
               /\ ~HandshakeSucceeded) =>
               try_result.error = result.error
====
